---- MODULE Spec2Model ----
(***************************************************************************)
(* The playground server's request handlers as a state machine.            *)
(*                                                                         *)
(* Modern API (setupRoutes): POST /api/playground and                      *)
(* PUT /api/playground/:slug run inside db.transaction(...); every         *)
(* asynchronous persistence call (transaction open, findById, create,      *)
(* update, $set, commit) is one step of the request, so requests           *)
(* interleave at exactly the points where the runtime can switch between   *)
(* them.  Legacy API (routesInit): the data.* calls with their callbacks.  *)
(***************************************************************************)
EXTENDS Integers, Sequences, FiniteSets, TLC

(* ------------------------------ bounds -------------------------------- *)

\* number of requests the server receives in one behaviour
MaxRequests == 2
\* number of requests in a behaviour in which they arrive one after the other
MaxSeqRequests == 3
\* number of requests in flight at one time
MaxInFlight == 2
\* number of playground ids the store can hand out
MaxIds == 2
\* number of playground ids the legacy store can hand out
MaxLegacyIds == 1
\* tag ids that exist in the Tag table
MaxTagId == 1
\* number of requests in a behaviour that explores the inputs of one handler
MaxInputRequests == 1
\* contents lengths explored on each side of the limits of the validation
LenSlack == 1
\* length of the tags lists explored
MaxTagsLen == 3
\* tag ids the entries of the explored tags lists carry
MaxListTagId == 2

(* ------------------------- program constants -------------------------- *)

\* contents.length > 16777214
MaxContents == 16777214
\* slug.length !== 21
SlugLen == 21

OK == 200
CREATED == 201
NOT_FOUND == 404
UNPROCESSABLE_ENTITY == 422
INTERNAL_SERVER_ERROR == 500

(* ------------------------------ values -------------------------------- *)

\* requests the runtime multiplexes at one time: the slots 1..MaxInFlight
Reqs == 1..MaxInFlight

Ids == 1..MaxIds
TagIds == 1..MaxTagId

\* The slug generated for playground i: 21 characters, distinct per playground.
SlugOf(i) == "playground-slug-0000" \o ToString(i)

\* slugs a caller can put in the URL: the stored ones and one of another length
Slugs == {SlugOf(i) : i \in Ids} \cup {"short-slug"}

\* contents is modelled by its length (0: empty or missing)
ContentsLens == {0, MaxContents, MaxContents + 1}

\* An entry of req.body.tags: typ is what `tagsData[i] && typeof tagsData[i].id`
\* sees ("null": the entry itself is null, "undefined": no id property).
NumTag(n) == [typ |-> "number", id |-> n]
NullTag == [typ |-> "null", id |-> 0]
NoIdTag == [typ |-> "undefined", id |-> 0]
StrIdTag == [typ |-> "string", id |-> 1]
TagEntries == {NumTag(n) : n \in 1..MaxListTagId} \cup {NullTag, NoIdTag, StrIdTag}

\* every tags list of up to MaxTagsLen entries of any kind
LongTagLists == UNION {[1..n -> TagEntries] : n \in 0..MaxTagsLen}

\* contents lengths around both ends of the accepted range
BoundaryLens ==
    (0..LenSlack) \cup ((MaxContents - LenSlack)..(MaxContents + LenSlack))

\* the entries the requests of the server model carry
RequestTagEntries == {NumTag(n) : n \in TagIds} \cup {NullTag}

\* the tags lists of the requests: none, or one entry
TagLists == {<<>>} \cup {<<e>> : e \in RequestTagEntries}

\* the q of GET /api/playgrounds?q=
Queries == {"", "pixi"}

LegacyIds == 1..MaxLegacyIds

NoRow == [id |-> 0]
NoTags == {-1}

\* what the handlers read from req.params and req.body; a field a route does
\* not read keeps the value it has here
NoRequest ==
    [route |-> "none", slug |-> "", id |-> 0, contents |-> 0, tagsData |-> <<>>,
     name |-> "", author |-> "", version |-> <<>>, q |-> ""]

VARIABLES
    playgrounds,     \* committed Playground rows: id -> row or NoRow
    playgroundTags,  \* committed tag associations: id -> set of tag ids
    nextId,          \* next id Playground.create hands out
    legacyVersions,  \* legacy store: id -> number of versions stored (0: none)
    started,         \* requests received so far
    req,             \* per request: route and inputs
    pc,              \* per request: the asynchronous call it waits for
    tx,              \* per request: state of its transaction
    value,           \* per request: the Playground instance in hand
    txRow,           \* per request: row written inside its transaction
    txTags,          \* per request: associations written inside its transaction
    responses,       \* per request: the res.json calls, in order
    nexts,           \* per request: number of next() calls
    purge,           \* per request: state of its purgeCacheForUrls call
    failed           \* per request: the call that failed ("none" if none)

store == <<playgrounds, playgroundTags, nextId>>
vars == <<playgrounds, playgroundTags, nextId, legacyVersions, started,
          req, pc, tx, value, txRow, txTags, responses, nexts, purge, failed>>

Init ==
    /\ playgrounds = [i \in Ids |-> NoRow]
    /\ playgroundTags = [i \in Ids |-> {}]
    /\ nextId = 1
    /\ legacyVersions = [i \in LegacyIds |-> 0]
    /\ started = 0
    /\ req = [r \in Reqs |-> NoRequest]
    /\ pc = [r \in Reqs |-> "idle"]
    /\ tx = [r \in Reqs |-> "none"]
    /\ value = [r \in Reqs |-> NoRow]
    /\ txRow = [r \in Reqs |-> NoRow]
    /\ txTags = [r \in Reqs |-> NoTags]
    /\ responses = [r \in Reqs |-> <<>>]
    /\ nexts = [r \in Reqs |-> 0]
    /\ purge = [r \in Reqs |-> "none"]
    /\ failed = [r \in Reqs |-> "none"]

(* ------------------------------ helpers ------------------------------- *)

Msg == "msg"

\* res.json(code, body)
Json(r, code, body) == Append(responses[r], [code |-> code, body |-> body])

\* prepareTags testing the id for presence instead of for its type
RECURSIVE prepareTagsAnyId(_)
prepareTagsAnyId(tagsData) ==
    IF tagsData = <<>> THEN <<>>
    ELSE LET e == Head(tagsData)
             rest == prepareTagsAnyId(Tail(tagsData))
         IN  IF e.typ # "null" /\ e.typ # "undefined" THEN <<e.id>> \o rest ELSE rest

\* function prepareTags(log, tagsData): the entries with a numeric id, in order
RECURSIVE prepareTags(_)
prepareTags(tagsData) ==
    IF tagsData = <<>> THEN <<>>
    ELSE LET e == Head(tagsData)
             rest == prepareTags(Tail(tagsData))
         IN  IF e.typ # "null" /\ e.typ = "number" THEN <<e.id>> \o rest ELSE rest

\* the ids of a list of Tag instances, as value.$set('tags', tags) associates them
TagSet(tags) == {tags[i] : i \in 1..Len(tags)}

\* SetTags where a tag of the list that is attached already is detached
ToggleTags(current, tags) == (current \ TagSet(tags)) \cup (TagSet(tags) \ current)

\* value.$set('tags', tags) for an instance associated with the tags `current`:
\* the associations not in the list are removed, the tags of the list not yet
\* associated are added
SetTags(current, tags) ==
    LET obsolete == current \ TagSet(tags)
        unassociated == TagSet(tags) \ current
    IN  (current \ obsolete) \cup unassociated

\* A request arrives in a free slot: the slot's state is that of a new request.
Receive(r, rq) ==
    /\ pc[r] \in {"idle", "done"}
    /\ \A q \in Reqs : q < r => pc[q] \notin {"idle", "done"}
    /\ started' = started + 1
    /\ req' = [req EXCEPT ![r] = rq]
    /\ value' = [value EXCEPT ![r] = NoRow]
    /\ txRow' = [txRow EXCEPT ![r] = NoRow]
    /\ txTags' = [txTags EXCEPT ![r] = NoTags]
    /\ purge' = [purge EXCEPT ![r] = "none"]
    /\ failed' = [failed EXCEPT ![r] = "none"]
    /\ tx' = [tx EXCEPT ![r] = "none"]
    /\ UNCHANGED <<store, legacyVersions>>

\* res.json(code, body); next();
Send(r, code, body) ==
    /\ responses' = [responses EXCEPT ![r] = Json(r, code, body)]
    /\ nexts' = [nexts EXCEPT ![r] = @ + 1]

\* the handler returns without touching the store or the response
Quiet(r) == UNCHANGED <<responses, nexts>>

\* a row of the Playground table, as the instance `value` carries it
Row(id, slug, versionsCount, contents) ==
    [id |-> id, slug |-> slug, versionsCount |-> versionsCount, contents |-> contents]

\* db.transaction(cb): the callback's promise resolved, so COMMIT is issued.
\* It either makes the transaction's writes visible or fails, and then the
\* promise db.transaction returned rejects with nobody listening.
Commit(r) ==
    /\ pc[r] = "commit"
    /\ pc' = [pc EXCEPT ![r] = "done"]
    /\ \/ /\ tx' = [tx EXCEPT ![r] = "committed"]
          /\ playgrounds' = IF txRow[r] = NoRow THEN playgrounds
                            ELSE [playgrounds EXCEPT ![txRow[r].id] = txRow[r]]
          /\ playgroundTags' = IF txTags[r] = NoTags THEN playgroundTags
                               ELSE [playgroundTags EXCEPT ![txRow[r].id] = txTags[r]]
          /\ UNCHANGED failed
       \/ /\ tx' = [tx EXCEPT ![r] = "rolledback"]
          /\ failed' = [failed EXCEPT ![r] = "commit"]
          /\ UNCHANGED <<playgrounds, playgroundTags>>
    /\ UNCHANGED <<nextId, legacyVersions, started, req, value, txRow, txTags, responses, nexts, purge>>

\* db.transaction(cb): BEGIN.  On failure the callback never runs and the
\* rejection of db.transaction's promise is not handled.
Begin(r, first) ==
    /\ pc[r] = "begin"
    /\ \/ /\ tx' = [tx EXCEPT ![r] = "open"]
          /\ pc' = [pc EXCEPT ![r] = first]
          /\ UNCHANGED failed
       \/ /\ tx' = [tx EXCEPT ![r] = "rolledback"]
          /\ pc' = [pc EXCEPT ![r] = "done"]
          /\ failed' = [failed EXCEPT ![r] = "begin"]
    /\ UNCHANGED <<store, legacyVersions, started, req, value, txRow, txTags, responses, nexts, purge>>

(* ----------------------- POST /api/playground ------------------------- *)

PostRoute == "POST /api/playground"

\* creates received and not yet past Playground.create
PendingCreates == Cardinality({q \in Reqs : req[q].route = PostRoute /\ pc[q] \in {"begin", "create"}})

\* PostInvalid with the size bound off by one
PostInvalidOffByOne(contents) == contents = 0 \/ contents > MaxContents + 1

\* !contents || contents.length > 16777214
PostInvalid(contents) == contents = 0 \/ contents > MaxContents

\* the handler up to db.transaction(...): validation
PostPlayground(r, contents, tagsData) ==
    /\ nextId + PendingCreates <= MaxIds
    /\ Receive(r, [NoRequest EXCEPT !.route = PostRoute, !.contents = contents,
                                 !.tagsData = tagsData])
    /\ IF PostInvalid(contents)
       THEN /\ responses' = [responses EXCEPT ![r] = <<[code |-> UNPROCESSABLE_ENTITY, body |-> Msg]>>]
            /\ nexts' = [nexts EXCEPT ![r] = 1]
            /\ pc' = [pc EXCEPT ![r] = "done"]
       ELSE /\ responses' = [responses EXCEPT ![r] = <<>>]
            /\ nexts' = [nexts EXCEPT ![r] = 0]
            /\ pc' = [pc EXCEPT ![r] = "begin"]

PostTransaction(r) ==
    /\ req[r].route = PostRoute
    /\ Begin(r, "create")

\* the row Playground.create(...) inserts: the id the store hands out, a freshly
\* generated slug, versionsCount 0
CreatedRow(id, contents) == Row(id, SlugOf(id), 0, contents)

\* Playground.create(...).then(...) and the .then / .catch after it
PostCreate(r) ==
    /\ req[r].route = PostRoute
    /\ pc[r] = "create"
    /\ \/ LET v == CreatedRow(nextId, req[r].contents)
          IN  /\ nextId' = nextId + 1
              /\ value' = [value EXCEPT ![r] = v]
              /\ txRow' = [txRow EXCEPT ![r] = v]
              /\ IF Len(req[r].tagsData) > 0
                 THEN /\ pc' = [pc EXCEPT ![r] = "set"]
                      /\ Quiet(r)
                 ELSE /\ pc' = [pc EXCEPT ![r] = "commit"]
                      /\ Send(r, CREATED, v)
              /\ UNCHANGED failed
       \/ /\ failed' = [failed EXCEPT ![r] = "create"]
          /\ Send(r, INTERNAL_SERVER_ERROR, Msg)
          /\ pc' = [pc EXCEPT ![r] = "commit"]
          /\ UNCHANGED <<nextId, value, txRow>>
    /\ UNCHANGED <<playgrounds, playgroundTags, legacyVersions, started, req, tx, txTags, purge>>

\* value.$set('tags', prepareTags(...)) and the .then / .catch after it
PostSetTags(r) ==
    /\ req[r].route = PostRoute
    /\ pc[r] = "set"
    /\ pc' = [pc EXCEPT ![r] = "commit"]
    /\ \/ /\ txTags' = [txTags EXCEPT ![r] = SetTags({}, prepareTags(req[r].tagsData))]
          /\ Send(r, CREATED, value[r])
          /\ UNCHANGED failed
       \/ /\ failed' = [failed EXCEPT ![r] = "$set"]
          /\ Send(r, INTERNAL_SERVER_ERROR, Msg)
          /\ UNCHANGED txTags
    /\ UNCHANGED <<store, legacyVersions, started, req, tx, value, txRow, purge>>

PostCommit(r) ==
    /\ req[r].route = PostRoute
    /\ Commit(r)

(* --------------------- PUT /api/playground/:slug ---------------------- *)

PutRoute == "PUT /api/playground/:slug"

\* PutInvalid with >= for > in the size bound
PutInvalidOffByOne(slug, contents) ==
    slug = "" \/ contents = 0 \/ Len(slug) # SlugLen \/ contents >= MaxContents

\* !slug || !contents || slug.length !== 21 || contents.length > 16777214
PutInvalid(slug, contents) ==
    slug = "" \/ contents = 0 \/ Len(slug) # SlugLen \/ contents > MaxContents

\* the handler up to db.transaction(...): validation
PutPlayground(r, slug, id, contents, tagsData) ==
    /\ Receive(r, [NoRequest EXCEPT !.route = PutRoute, !.slug = slug, !.id = id,
                                 !.contents = contents, !.tagsData = tagsData])
    /\ IF PutInvalid(slug, contents)
       THEN /\ responses' = [responses EXCEPT ![r] = <<[code |-> UNPROCESSABLE_ENTITY, body |-> Msg]>>]
            /\ nexts' = [nexts EXCEPT ![r] = 1]
            /\ pc' = [pc EXCEPT ![r] = "done"]
       ELSE /\ responses' = [responses EXCEPT ![r] = <<>>]
            /\ nexts' = [nexts EXCEPT ![r] = 0]
            /\ pc' = [pc EXCEPT ![r] = "begin"]

PutTransaction(r) ==
    /\ req[r].route = PutRoute
    /\ Begin(r, "find")

\* findById looking up by the URL's slug instead of the body's id
findBySlug(r) ==
    IF \E i \in Ids : playgrounds[i] # NoRow /\ playgrounds[i].slug = req[r].slug
    THEN playgrounds[CHOOSE i \in Ids : playgrounds[i] # NoRow /\ playgrounds[i].slug = req[r].slug]
    ELSE NoRow

\* Playground.findById(id, { transaction: t }): the committed row, NoRow if none
findById(r) == playgrounds[req[r].id]

\* Playground.findById(id, { transaction: t }).then(...).  No .catch follows this
\* promise: when it rejects, the transaction rolls back and nothing is sent.
PutFindById(r) ==
    /\ req[r].route = PutRoute
    /\ pc[r] = "find"
    /\ \/ /\ failed' = [failed EXCEPT ![r] = "findById"]
          /\ tx' = [tx EXCEPT ![r] = "rolledback"]
          /\ pc' = [pc EXCEPT ![r] = "done"]
          /\ Quiet(r)
          /\ UNCHANGED value
       \/ /\ findById(r) = NoRow
          /\ Send(r, NOT_FOUND, Msg)
          /\ pc' = [pc EXCEPT ![r] = "commit"]
          /\ UNCHANGED <<failed, tx, value>>
       \/ /\ findById(r) # NoRow
          /\ value' = [value EXCEPT ![r] = findById(r)]
          /\ pc' = [pc EXCEPT ![r] = "update"]
          /\ Quiet(r)
          /\ UNCHANGED <<failed, tx>>
    /\ UNCHANGED <<store, legacyVersions, started, req, txRow, txTags, purge>>

\* purgeCacheForUrls(req.log, [...]); res.json(CODES.OK, value); next();
PutRespond(r, body) ==
    /\ purge' = [purge EXCEPT ![r] = "requested"]
    /\ Send(r, OK, body)

\* `value.slug !== slug` after the update: 500 is sent and the callback returns
\* undefined, so the next .then runs as on success: purge, then a second
\* res.json on a response that was already sent.  What that second call does is
\* the framework's business: it is accepted, or it throws; if it throws, the
\* .catch calls res.json a third time, which throws again, the callback's
\* promise rejects and the transaction rolls back.
PutSlugMismatch(r) ==
    /\ purge' = [purge EXCEPT ![r] = "requested"]
    /\ \/ /\ responses' = [responses EXCEPT ![r] =
                 Json(r, INTERNAL_SERVER_ERROR, Msg) \o <<[code |-> OK, body |-> "undefined"]>>]
          /\ nexts' = [nexts EXCEPT ![r] = @ + 2]
          /\ pc' = [pc EXCEPT ![r] = "commit"]
          /\ UNCHANGED <<failed, tx>>
       \/ /\ Send(r, INTERNAL_SERVER_ERROR, Msg)
          /\ failed' = [failed EXCEPT ![r] = "res.json"]
          /\ tx' = [tx EXCEPT ![r] = "rolledback"]
          /\ pc' = [pc EXCEPT ![r] = "done"]

\* UpdatedRow with the slug generated anew among the updated fields
UpdatedRowNewSlug(v, contents) == Row(v.id, SlugOf(v.id + 1), v.versionsCount + 1, contents)

\* UpdatedRow without the increment of versionsCount
UpdatedRowSameCount(v, contents) == Row(v.id, v.slug, v.versionsCount, contents)

\* the row value.update({..., contents, versionsCount: value.versionsCount + 1})
\* writes: the slug is not among the updated fields
UpdatedRow(v, contents) == Row(v.id, v.slug, v.versionsCount + 1, contents)

\* value.update(...).then(...) and the .then / .catch after it
PutUpdate(r) ==
    /\ req[r].route = PutRoute
    /\ pc[r] = "update"
    /\ \/ /\ failed' = [failed EXCEPT ![r] = "update"]
          /\ Send(r, INTERNAL_SERVER_ERROR, Msg)
          /\ pc' = [pc EXCEPT ![r] = "commit"]
          /\ UNCHANGED <<value, txRow, purge, tx>>
       \/ LET v == UpdatedRow(value[r], req[r].contents)
          IN  /\ value' = [value EXCEPT ![r] = v]
              /\ txRow' = [txRow EXCEPT ![r] = v]
              /\ IF v.slug # req[r].slug
                 THEN PutSlugMismatch(r)
                 ELSE IF Len(req[r].tagsData) > 0
                 THEN /\ pc' = [pc EXCEPT ![r] = "set"]
                      /\ Quiet(r)
                      /\ UNCHANGED <<failed, purge, tx>>
                 ELSE /\ pc' = [pc EXCEPT ![r] = "commit"]
                      /\ PutRespond(r, v)
                      /\ UNCHANGED <<failed, tx>>
    /\ UNCHANGED <<store, legacyVersions, started, req, txTags>>

\* value.$set('tags', prepareTags(...)) and the .then / .catch after it
PutSetTags(r) ==
    /\ req[r].route = PutRoute
    /\ pc[r] = "set"
    /\ pc' = [pc EXCEPT ![r] = "commit"]
    /\ \/ /\ txTags' = [txTags EXCEPT ![r] =
                        SetTags(playgroundTags[value[r].id], prepareTags(req[r].tagsData))]
          /\ PutRespond(r, value[r])
          /\ UNCHANGED failed
       \/ /\ failed' = [failed EXCEPT ![r] = "$set"]
          /\ Send(r, INTERNAL_SERVER_ERROR, Msg)
          /\ UNCHANGED <<txTags, purge>>
    /\ UNCHANGED <<store, legacyVersions, started, req, tx, value, txRow>>

PutCommit(r) ==
    /\ req[r].route = PutRoute
    /\ Commit(r)

\* OnPurgeSettled had the call been chained: a rejected purge reaches the .catch
OnPurgeSettledCaught(r, ok) ==
    /\ IF ok THEN UNCHANGED <<responses, nexts, failed>>
       ELSE /\ Send(r, INTERNAL_SERVER_ERROR, Msg)
            /\ failed' = [failed EXCEPT ![r] = "purge"]
    /\ UNCHANGED <<store, legacyVersions, started, req, pc, tx, value, txRow, txTags>>

\* purgeCacheForUrls(req.log, [...]) is a statement: nothing is chained to its
\* result, so when the purge settles no part of the handler runs
OnPurgeSettled(r, ok) ==
    UNCHANGED <<store, legacyVersions, started, req, pc, tx, value, txRow, txTags,
                responses, nexts, failed>>

\* the purge request settles, well or not, some time after the call
PurgeSettles(r, ok) ==
    /\ purge[r] = "requested"
    /\ purge' = [purge EXCEPT ![r] = IF ok THEN "purged" ELSE "failed"]
    /\ OnPurgeSettled(r, ok)

(* ------------------------ GET /api/playgrounds ------------------------ *)

SearchRoute == "GET /api/playgrounds"

\* ids of the committed playgrounds
Stored == {i \in Ids : playgrounds[i] # NoRow}

\* the handler up to Playground.search(q)
GetPlaygrounds(r, q) ==
    /\ Receive(r, [NoRequest EXCEPT !.route = SearchRoute, !.q = q])
    /\ IF q = ""
       THEN /\ responses' = [responses EXCEPT ![r] = <<[code |-> UNPROCESSABLE_ENTITY, body |-> Msg]>>]
            /\ nexts' = [nexts EXCEPT ![r] = 1]
            /\ pc' = [pc EXCEPT ![r] = "done"]
       ELSE /\ responses' = [responses EXCEPT ![r] = <<>>]
            /\ nexts' = [nexts EXCEPT ![r] = 0]
            /\ pc' = [pc EXCEPT ![r] = "search"]

\* Playground.search(q): the stored playgrounds the store finds to match q
\* (which of them match is the store's business), or a rejection
Search(values) == values \in SUBSET Stored

\* GetPlaygroundsThen without the test for an empty result
GetPlaygroundsThenAlwaysOk(r) ==
    /\ req[r].route = SearchRoute
    /\ pc[r] = "search"
    /\ pc' = [pc EXCEPT ![r] = "done"]
    /\ \/ \E values \in SUBSET Ids :
            /\ Search(values)
            /\ Send(r, OK, values)
            /\ UNCHANGED failed
       \/ /\ failed' = [failed EXCEPT ![r] = "search"]
          /\ Send(r, INTERNAL_SERVER_ERROR, Msg)
    /\ UNCHANGED <<store, legacyVersions, started, req, tx, value, txRow, txTags, purge>>

\* Playground.search(q).then(...).catch(...)
GetPlaygroundsThen(r) ==
    /\ req[r].route = SearchRoute
    /\ pc[r] = "search"
    /\ pc' = [pc EXCEPT ![r] = "done"]
    /\ \/ \E values \in SUBSET Ids :
            /\ Search(values)
            /\ IF values = {} \/ Cardinality(values) = 0
               THEN Send(r, NOT_FOUND, Msg)
               ELSE Send(r, OK, values)
            /\ UNCHANGED failed
       \/ /\ failed' = [failed EXCEPT ![r] = "search"]
          /\ Send(r, INTERNAL_SERVER_ERROR, Msg)
    /\ UNCHANGED <<store, legacyVersions, started, req, tx, value, txRow, txTags, purge>>

(* --------------------- GET /api/playground/:slug ---------------------- *)

GetRoute == "GET /api/playground/:slug"

\* the handler up to Playground.findOne(...): there is no validation
GetPlayground(r, slug) ==
    /\ Receive(r, [NoRequest EXCEPT !.route = GetRoute, !.slug = slug])
    /\ responses' = [responses EXCEPT ![r] = <<>>]
    /\ nexts' = [nexts EXCEPT ![r] = 0]
    /\ pc' = [pc EXCEPT ![r] = "findOne"]

\* Playground.findOne({ where: { slug }, include: [Tag] }).then(...).catch(...)
GetPlaygroundThen(r) ==
    /\ req[r].route = GetRoute
    /\ pc[r] = "findOne"
    /\ pc' = [pc EXCEPT ![r] = "done"]
    /\ \/ LET found == {i \in Stored : playgrounds[i].slug = req[r].slug}
          IN  /\ IF found = {}
                 THEN Send(r, NOT_FOUND, Msg)
                 ELSE \E i \in found :
                        Send(r, OK, [row |-> playgrounds[i], tags |-> playgroundTags[i]])
              /\ UNCHANGED failed
       \/ /\ failed' = [failed EXCEPT ![r] = "findOne"]
          /\ Send(r, INTERNAL_SERVER_ERROR, Msg)
    /\ UNCHANGED <<store, legacyVersions, started, req, tx, value, txRow, txTags, purge>>

(* ----------------------------- legacy API ----------------------------- *)

\* a JavaScript number, as far as the handlers tell numbers apart
NaN == [nan |-> TRUE, n |-> 0]
Number(n) == [nan |-> FALSE, n |-> n]

Digits == {"0", "1", "2", "3", "4", "5", "6", "7", "8", "9"}
DigitValue(c) ==
    CASE c = "0" -> 0 [] c = "1" -> 1 [] c = "2" -> 2 [] c = "3" -> 3 [] c = "4" -> 4
      [] c = "5" -> 5 [] c = "6" -> 6 [] c = "7" -> 7 [] c = "8" -> 8 [] c = "9" -> 9

\* the number the leading digits of s denote, continuing acc; acc when s
\* starts with no digit
RECURSIVE LeadingDigits(_, _)
LeadingDigits(s, acc) ==
    IF s = <<>> \/ Head(s) \notin Digits THEN acc
    ELSE LeadingDigits(Tail(s),
                       Number((IF acc.nan THEN 0 ELSE acc.n * 10) + DigitValue(Head(s))))

RECURSIVE SkipSpaces(_)
SkipSpaces(s) == IF s # <<>> /\ Head(s) = " " THEN SkipSpaces(Tail(s)) ELSE s

\* parseInt(version, 10): leading white space, an optional sign, then the
\* longest run of digits; what follows the digits is ignored
parseInt(version) ==
    LET t == SkipSpaces(version)
        signed == t # <<>> /\ Head(t) \in {"-", "+"}
        m == LeadingDigits(IF signed THEN Tail(t) ELSE t, NaN)
    IN  IF m.nan THEN NaN
        ELSE IF signed /\ Head(t) = "-" THEN Number(0 - m.n) ELSE m

isNaN(x) == x.nan

\* the :version strings of the requests, as tuples of characters
VersionStrings == {<<"0">>, <<"1", "x">>, <<"x", "1">>, <<"-">>}
Names == {"", "demo"}
Authors == {"", "a"}
LegacyContentsLens == {0, 1}

LegacyGetRoute == "GET /api/:id"
LegacyGetVersionRoute == "GET /api/:id/:version"
LegacyPostRoute == "POST /api"
LegacyPostVersionRoute == "POST /api/:id"

\* data.getPlayground(id, version, cb): (err, item), item "none" when the id or
\* the version is not stored
DataGetPlayground(id, version, result) ==
    \/ result = "err"
    \/ result = "none" /\ ~(version \in 0..(legacyVersions[id] - 1))
    \/ result = "item" /\ version \in 0..(legacyVersions[id] - 1)

\* GET /api/:id: the handler calls data.getPlayground(id, 0, cb) at once
LegacyGet(r, id) ==
    /\ Receive(r, [NoRequest EXCEPT !.route = LegacyGetRoute, !.id = id])
    /\ responses' = [responses EXCEPT ![r] = <<>>]
    /\ nexts' = [nexts EXCEPT ![r] = 0]
    /\ pc' = [pc EXCEPT ![r] = "data"]

\* the callback of data.getPlayground(id, 0, ...)
LegacyGetCallback(r) ==
    /\ req[r].route = LegacyGetRoute
    /\ pc[r] = "data"
    /\ pc' = [pc EXCEPT ![r] = "done"]
    /\ \E result \in {"err", "none", "item"} :
        /\ DataGetPlayground(req[r].id, 0, result)
        /\ IF result = "err"
           THEN /\ failed' = [failed EXCEPT ![r] = "data"]
                /\ Send(r, INTERNAL_SERVER_ERROR, Msg)
           ELSE /\ UNCHANGED failed
                /\ IF result = "none"
                   THEN Send(r, NOT_FOUND, Msg)
                   ELSE Send(r, OK, "item")
    /\ UNCHANGED <<store, legacyVersions, started, req, tx, value, txRow, txTags, purge>>

\* isNaN(parseInt(version, 10))
VersionInvalid(version) == isNaN(parseInt(version))

\* GET /api/:id/:version up to data.getPlayground(id, version, cb)
LegacyGetVersion(r, id, version) ==
    /\ Receive(r, [NoRequest EXCEPT !.route = LegacyGetVersionRoute, !.id = id,
                                     !.version = version])
    /\ IF VersionInvalid(version)
       THEN /\ responses' = [responses EXCEPT ![r] = <<[code |-> UNPROCESSABLE_ENTITY, body |-> Msg]>>]
            /\ nexts' = [nexts EXCEPT ![r] = 1]
            /\ pc' = [pc EXCEPT ![r] = "done"]
       ELSE /\ responses' = [responses EXCEPT ![r] = <<>>]
            /\ nexts' = [nexts EXCEPT ![r] = 0]
            /\ pc' = [pc EXCEPT ![r] = "data"]

\* the callback of data.getPlayground(id, version, ...)
LegacyGetVersionCallback(r) ==
    /\ req[r].route = LegacyGetVersionRoute
    /\ pc[r] = "data"
    /\ pc' = [pc EXCEPT ![r] = "done"]
    /\ \E result \in {"err", "none", "item"} :
        /\ DataGetPlayground(req[r].id, parseInt(req[r].version).n, result)
        /\ IF result = "err"
           THEN /\ failed' = [failed EXCEPT ![r] = "data"]
                /\ Send(r, INTERNAL_SERVER_ERROR, Msg)
           ELSE /\ UNCHANGED failed
                /\ IF result = "none"
                   THEN Send(r, NOT_FOUND, Msg)
                   ELSE Send(r, OK, "item")
    /\ UNCHANGED <<store, legacyVersions, started, req, tx, value, txRow, txTags, purge>>

\* legacy creates received and not yet answered by the data layer
PendingLegacyCreates ==
    Cardinality({q \in Reqs : req[q].route = LegacyPostRoute /\ pc[q] = "data"})
LegacyStored == {i \in LegacyIds : legacyVersions[i] > 0}

\* !name || !author || !contents
LegacyPostInvalid(name, author, contents) == name = "" \/ author = "" \/ contents = 0

\* POST /api up to data.createPlayground(...)
LegacyPost(r, name, author, contents) ==
    /\ Cardinality(LegacyStored) + PendingLegacyCreates < MaxLegacyIds
    /\ Receive(r, [NoRequest EXCEPT !.route = LegacyPostRoute, !.name = name,
                                     !.author = author, !.contents = contents])
    /\ IF LegacyPostInvalid(name, author, contents)
       THEN /\ responses' = [responses EXCEPT ![r] = <<[code |-> UNPROCESSABLE_ENTITY, body |-> Msg]>>]
            /\ nexts' = [nexts EXCEPT ![r] = 1]
            /\ pc' = [pc EXCEPT ![r] = "done"]
       ELSE /\ responses' = [responses EXCEPT ![r] = <<>>]
            /\ nexts' = [nexts EXCEPT ![r] = 0]
            /\ pc' = [pc EXCEPT ![r] = "data"]

\* data.createPlayground(...): a new playground with its version 0, or an error
DataCreatePlayground(result) ==
    \/ /\ result = "err"
       /\ UNCHANGED legacyVersions
    \/ /\ result = "item"
       /\ \E i \in LegacyIds :
            /\ legacyVersions[i] = 0
            /\ \A j \in LegacyIds : j < i => legacyVersions[j] > 0
            /\ legacyVersions' = [legacyVersions EXCEPT ![i] = 1]

\* the callback of data.createPlayground(...)
LegacyPostCallback(r) ==
    /\ req[r].route = LegacyPostRoute
    /\ pc[r] = "data"
    /\ pc' = [pc EXCEPT ![r] = "done"]
    /\ \E result \in {"err", "item"} :
        /\ DataCreatePlayground(result)
        /\ IF result = "err"
           THEN /\ failed' = [failed EXCEPT ![r] = "data"]
                /\ Send(r, INTERNAL_SERVER_ERROR, Msg)
           ELSE /\ UNCHANGED failed
                /\ Send(r, OK, "item")
    /\ UNCHANGED <<store, started, req, tx, value, txRow, txTags, purge>>

\* !name || !author || !contents
LegacyPostVersionInvalid(name, author, contents) ==
    name = "" \/ author = "" \/ contents = 0

\* POST /api/:id up to data.createPlaygroundVersion(...)
LegacyPostVersion(r, id, name, author, contents) ==
    /\ Receive(r, [NoRequest EXCEPT !.route = LegacyPostVersionRoute, !.id = id,
                       !.name = name, !.author = author, !.contents = contents])
    /\ IF LegacyPostVersionInvalid(name, author, contents)
       THEN /\ responses' = [responses EXCEPT ![r] = <<[code |-> UNPROCESSABLE_ENTITY, body |-> Msg]>>]
            /\ nexts' = [nexts EXCEPT ![r] = 1]
            /\ pc' = [pc EXCEPT ![r] = "done"]
       ELSE /\ responses' = [responses EXCEPT ![r] = <<>>]
            /\ nexts' = [nexts EXCEPT ![r] = 0]
            /\ pc' = [pc EXCEPT ![r] = "data"]

\* data.createPlaygroundVersion(id, ...): the next version of a stored
\* playground, no item when the id is not stored, or an error
DataCreatePlaygroundVersion(id, result) ==
    \/ /\ result = "err"
       /\ UNCHANGED legacyVersions
    \/ /\ result = "none"
       /\ legacyVersions[id] = 0
       /\ UNCHANGED legacyVersions
    \/ /\ result = "item"
       /\ legacyVersions[id] > 0
       /\ legacyVersions' = [legacyVersions EXCEPT ![id] = @ + 1]

\* the callback of data.createPlaygroundVersion(...)
LegacyPostVersionCallback(r) ==
    /\ req[r].route = LegacyPostVersionRoute
    /\ pc[r] = "data"
    /\ pc' = [pc EXCEPT ![r] = "done"]
    /\ \E result \in {"err", "none", "item"} :
        /\ DataCreatePlaygroundVersion(req[r].id, result)
        /\ IF result = "err"
           THEN /\ failed' = [failed EXCEPT ![r] = "data"]
                /\ Send(r, INTERNAL_SERVER_ERROR, Msg)
           ELSE /\ UNCHANGED failed
                /\ IF result = "none"
                   THEN Send(r, NOT_FOUND, Msg)
                   ELSE Send(r, OK, "item")
    /\ UNCHANGED <<store, started, req, tx, value, txRow, txTags, purge>>

(* ------------------------------ Next ---------------------------------- *)

NoneInFlight == \A r \in Reqs : pc[r] \in {"idle", "done"}

\* requests arrive at any time and interleave
CanArrive == started < MaxRequests

\* requests arrive one after the other: none while another is in flight
CanArriveSeq == started < MaxSeqRequests /\ NoneInFlight

\* an asynchronous call of a PUT /api/playground/:slug completes and its
\* callback runs
PutSteps ==
    \/ \E r \in Reqs : PutTransaction(r)
    \/ \E r \in Reqs : PutFindById(r)
    \/ \E r \in Reqs : PutUpdate(r)
    \/ \E r \in Reqs : PutSetTags(r)
    \/ \E r \in Reqs : PutCommit(r)
    \/ \E r \in Reqs, ok \in BOOLEAN : PurgeSettles(r, ok)

\* an asynchronous call of a modern write request completes and its callback runs
WriteSteps ==
    \/ \E r \in Reqs : PostTransaction(r)
    \/ \E r \in Reqs : PostCreate(r)
    \/ \E r \in Reqs : PostSetTags(r)
    \/ \E r \in Reqs : PostCommit(r)
    \/ PutSteps

\* an asynchronous call of a request in flight completes and its callback runs
Steps ==
    \/ WriteSteps
    \/ \E r \in Reqs : GetPlaygroundsThen(r)
    \/ \E r \in Reqs : GetPlaygroundThen(r)
    \/ \E r \in Reqs : LegacyGetCallback(r)
    \/ \E r \in Reqs : LegacyGetVersionCallback(r)
    \/ \E r \in Reqs : LegacyPostCallback(r)
    \/ \E r \in Reqs : LegacyPostVersionCallback(r)

Next ==
    \/ \E r \in Reqs, c \in ContentsLens, t \in TagLists :
            CanArrive /\ PostPlayground(r, c, t)
    \/ \E r \in Reqs, s \in Slugs, i \in Ids, c \in ContentsLens, t \in TagLists :
            CanArrive /\ PutPlayground(r, s, i, c, t)
    \/ \E r \in Reqs, q \in Queries : CanArrive /\ GetPlaygrounds(r, q)
    \/ \E r \in Reqs, s \in Slugs : CanArrive /\ GetPlayground(r, s)
    \/ \E r \in Reqs, i \in LegacyIds : CanArrive /\ LegacyGet(r, i)
    \/ \E r \in Reqs, i \in LegacyIds, v \in VersionStrings :
            CanArrive /\ LegacyGetVersion(r, i, v)
    \/ \E r \in Reqs, n \in Names, a \in Authors, c \in LegacyContentsLens :
            CanArrive /\ LegacyPost(r, n, a, c)
    \/ \E r \in Reqs, i \in LegacyIds, n \in Names, a \in Authors, c \in LegacyContentsLens :
            CanArrive /\ LegacyPostVersion(r, i, n, a, c)
    \/ Steps

Spec == Init /\ [][Next]_vars

NextSeq ==
    \/ \E r \in Reqs, c \in ContentsLens, t \in TagLists :
            CanArriveSeq /\ PostPlayground(r, c, t)
    \/ \E r \in Reqs, s \in Slugs, i \in Ids, c \in ContentsLens, t \in TagLists :
            CanArriveSeq /\ PutPlayground(r, s, i, c, t)
    \/ \E r \in Reqs, q \in Queries : CanArriveSeq /\ GetPlaygrounds(r, q)
    \/ \E r \in Reqs, s \in Slugs : CanArriveSeq /\ GetPlayground(r, s)
    \/ \E r \in Reqs, i \in LegacyIds : CanArriveSeq /\ LegacyGet(r, i)
    \/ \E r \in Reqs, i \in LegacyIds, v \in VersionStrings :
            CanArriveSeq /\ LegacyGetVersion(r, i, v)
    \/ \E r \in Reqs, n \in Names, a \in Authors, c \in LegacyContentsLens :
            CanArriveSeq /\ LegacyPost(r, n, a, c)
    \/ \E r \in Reqs, i \in LegacyIds, n \in Names, a \in Authors, c \in LegacyContentsLens :
            CanArriveSeq /\ LegacyPostVersion(r, i, n, a, c)
    \/ Steps

SpecSeq == Init /\ [][NextSeq]_vars

\* the server after one playground has been created (and committed) with
\* contents of the greatest accepted length and no tags
InitStored ==
    /\ playgrounds = [i \in Ids |-> IF i = 1 THEN CreatedRow(1, MaxContents) ELSE NoRow]
    /\ playgroundTags = [i \in Ids |-> {}]
    /\ nextId = 2
    /\ legacyVersions = [i \in LegacyIds |-> 0]
    /\ started = 0
    /\ req = [r \in Reqs |-> NoRequest]
    /\ pc = [r \in Reqs |-> "idle"]
    /\ tx = [r \in Reqs |-> "none"]
    /\ value = [r \in Reqs |-> NoRow]
    /\ txRow = [r \in Reqs |-> NoRow]
    /\ txTags = [r \in Reqs |-> NoTags]
    /\ responses = [r \in Reqs |-> <<>>]
    /\ nexts = [r \in Reqs |-> 0]
    /\ purge = [r \in Reqs |-> "none"]
    /\ failed = [r \in Reqs |-> "none"]

\* the requests whose inputs are explored arrive one after the other
CanArriveInput == started < MaxInputRequests /\ NoneInFlight

\* the modern write routes with contents of every length around the limits
NextContents ==
    \/ \E r \in Reqs, c \in BoundaryLens, t \in TagLists :
            CanArriveInput /\ PostPlayground(r, c, t)
    \/ \E r \in Reqs, s \in Slugs, i \in Ids, c \in BoundaryLens, t \in TagLists :
            CanArriveInput /\ PutPlayground(r, s, i, c, t)
    \/ WriteSteps

SpecContents == InitStored /\ [][NextContents]_vars

\* the valid modern write requests with every tags list, each update addressed
\* to the slug of the id it names
TagRequests ==
    {[NoRequest EXCEPT !.route = PostRoute, !.contents = MaxContents, !.tagsData = t] :
        t \in LongTagLists}
    \cup {[NoRequest EXCEPT !.route = PutRoute, !.slug = SlugOf(i), !.id = i,
                            !.contents = MaxContents, !.tagsData = t] :
            i \in Ids, t \in LongTagLists}

\* the server with one playground stored and one of these requests received:
\* it has passed validation and its handler has called db.transaction(...)
InitTags ==
    /\ playgrounds = [i \in Ids |-> IF i = 1 THEN CreatedRow(1, MaxContents) ELSE NoRow]
    /\ playgroundTags = [i \in Ids |-> {}]
    /\ nextId = 2
    /\ legacyVersions = [i \in LegacyIds |-> 0]
    /\ started = 1
    /\ \E rq \in TagRequests : req = [r \in Reqs |-> IF r = 1 THEN rq ELSE NoRequest]
    /\ pc = [r \in Reqs |-> IF r = 1 THEN "begin" ELSE "idle"]
    /\ tx = [r \in Reqs |-> "none"]
    /\ value = [r \in Reqs |-> NoRow]
    /\ txRow = [r \in Reqs |-> NoRow]
    /\ txTags = [r \in Reqs |-> NoTags]
    /\ responses = [r \in Reqs |-> <<>>]
    /\ nexts = [r \in Reqs |-> 0]
    /\ purge = [r \in Reqs |-> "none"]
    /\ failed = [r \in Reqs |-> "none"]

SpecTags == InitTags /\ [][WriteSteps]_vars

\* updates of the stored playground arrive at any time and interleave
NextPuts ==
    \/ \E r \in Reqs, s \in Slugs, i \in Ids, c \in ContentsLens, t \in TagLists :
            CanArrive /\ PutPlayground(r, s, i, c, t)
    \/ PutSteps

SpecPuts == InitStored /\ [][NextPuts]_vars

(* ------------------------------ claims -------------------------------- *)

ModernWrite(r) == req[r].route \in {PostRoute, PutRoute}

\* the response the client of request r receives: the first res.json
Answered(r) == responses[r] # <<>>
Status(r) == responses[r][1].code

\* the numeric ids among the entries of a tags list
WellFormedIds(tagsData) ==
    {tagsData[i].id : i \in {j \in 1..Len(tagsData) : tagsData[j].typ = "number"}}

\* C1: on the modern write routes the record change and the tag change are one
\* unit: no transaction is committed with its row written and, although the
\* request carries tags, its associations not written.
C1_RecordAndTagsCommitTogether ==
    \A r \in Reqs :
        (ModernWrite(r) /\ tx[r] = "committed" /\ txRow[r] # NoRow
            /\ Len(req[r].tagsData) > 0)
        => txTags[r] # NoTags

\* C2: a PUT whose record has, after the update, another slug than the URL's is
\* answered 500, and no 200 is sent for it.
C2_SlugMismatchNever200 ==
    \A r \in Reqs :
        (req[r].route = PutRoute /\ txRow[r] # NoRow /\ txRow[r].slug # req[r].slug)
        => /\ Answered(r) /\ Status(r) = INTERNAL_SERVER_ERROR
           /\ \A i \in 1..Len(responses[r]) : responses[r][i].code # OK

\* C3: a success response (201 / 200) of a modern write request is sent only
\* once its transaction has committed.
C3_SuccessOnlyAfterCommit ==
    \A r \in Reqs :
        (ModernWrite(r) /\ Answered(r) /\ Status(r) \in {OK, CREATED})
        => tx[r] = "committed"

\* C4: a modern write request in which a persistence call failed (transaction
\* open, lookup, create, update, tag attachment, commit) ends with exactly the
\* response 500 and a msg body.
C4_PersistenceFailureIs500 ==
    \A r \in Reqs :
        (ModernWrite(r) /\ pc[r] = "done"
            /\ failed[r] \in {"begin", "findById", "create", "update", "$set", "commit"})
        => responses[r] = <<[code |-> INTERNAL_SERVER_ERROR, body |-> Msg]>>

\* C5: after a successful PUT (answered 200 and committed) the playground's
\* tags are exactly the numeric-id entries of the request's tags list, also
\* when that list is empty or missing.
C5_TagsAreExactlyTheSuppliedSet ==
    \A r \in Reqs :
        (req[r].route = PutRoute /\ pc[r] = "done" /\ tx[r] = "committed"
            /\ Answered(r) /\ Status(r) = OK)
        => playgroundTags[req[r].id] = WellFormedIds(req[r].tagsData)

\* C9: a purge is requested only by a PUT that is answered 200 and whose
\* transaction has already committed.
C9_PurgeOnlyAfterCommit ==
    \A r \in Reqs :
        purge[r] # "none"
        => /\ req[r].route = PutRoute
           /\ tx[r] = "committed"
           /\ Answered(r) /\ Status(r) = OK

\* C6: a created record is returned and stored with versionsCount 0; an update
\* answered 200 returns, and on commit stores, a versionsCount exactly 1 greater
\* than the stored one.  Requests arrive one after the other.
C6_VersionsCountZeroThenPlusOne ==
    /\ [](\A r \in Reqs :
            (req[r].route = PostRoute /\ Answered(r) /\ Status(r) = CREATED)
            => responses[r][1].body.versionsCount = 0)
    /\ [][\A r \in Reqs :
            (req[r].route = PostRoute /\ pc[r] = "commit" /\ tx'[r] = "committed"
                /\ Status(r) = CREATED)
            => playgrounds'[responses[r][1].body.id].versionsCount = 0]_vars
    /\ [][\A r \in Reqs :
            (req[r].route = PutRoute /\ pc[r] \in {"update", "set"}
                /\ responses'[r] # <<>> /\ responses'[r][1].code = OK)
            => responses'[r][1].body.versionsCount
                 = playgrounds[req[r].id].versionsCount + 1]_vars
    /\ [][\A r \in Reqs :
            (req[r].route = PutRoute /\ pc[r] = "commit" /\ tx'[r] = "committed"
                /\ Status(r) = OK)
            => /\ playgrounds'[req[r].id].versionsCount
                    = playgrounds[req[r].id].versionsCount + 1
               /\ playgrounds'[req[r].id].versionsCount
                    = responses[r][1].body.versionsCount]_vars

\* a created record has been updated twice, each time answered 200 and committed
C6_Witness ==
    \E r \in Reqs :
        /\ req[r].route = PutRoute /\ pc[r] = "done" /\ tx[r] = "committed"
        /\ Answered(r) /\ Status(r) = OK
        /\ playgrounds[req[r].id].versionsCount = 2

\* the requests the validation of C7 rejects
Rejected(rq) ==
    CASE rq.route = PostRoute -> rq.contents = 0 \/ rq.contents > MaxContents
      [] rq.route = PutRoute ->
            \/ rq.contents = 0 \/ rq.contents > MaxContents
            \/ rq.slug = "" \/ Len(rq.slug) # SlugLen
      [] rq.route \in {LegacyPostRoute, LegacyPostVersionRoute} ->
            rq.name = "" \/ rq.author = "" \/ rq.contents = 0
      [] rq.route = LegacyGetVersionRoute -> isNaN(parseInt(rq.version))
      [] OTHER -> FALSE

\* request slot r receives a request in this step
ArrivesIn(r) ==
    /\ started' = started + 1
    /\ pc[r] \in {"idle", "done"}
    /\ \A q \in Reqs : q < r => pc[q] \notin {"idle", "done"}

C8_MismatchedIdIs404 ==
    \A r \in Reqs :
        (req[r].route = PutRoute /\ ~Rejected(req[r]) /\ pc[r] \in {"commit", "done"}
            /\ failed[r] = "none" /\ req[r].slug # SlugOf(req[r].id))
        => /\ responses[r] = <<[code |-> NOT_FOUND, body |-> Msg]>>
           /\ txRow[r] = NoRow /\ txTags[r] = NoTags

\* C8 amended: a valid PUT whose lookup finds no playground stored under the
\* body's id is answered 404 (once), writes nothing and requests no purge, and
\* its commit leaves the stored records and tag associations as they were.
C8_UnknownIdIs404 ==
    /\ [][\A r \in Reqs :
            (req[r].route = PutRoute /\ pc[r] = "find" /\ pc'[r] # "find"
                /\ failed'[r] = "none" /\ playgrounds[req[r].id] = NoRow)
            => /\ responses'[r] = <<[code |-> NOT_FOUND, body |-> Msg]>>
               /\ nexts'[r] = 1
               /\ pc'[r] = "commit"
               /\ txRow'[r] = NoRow /\ txTags'[r] = NoTags /\ purge'[r] = "none"
               /\ UNCHANGED <<playgrounds, playgroundTags>>]_vars
    /\ [][\A r \in Reqs :
            (req[r].route = PutRoute /\ pc[r] = "commit" /\ pc'[r] = "done"
                /\ Status(r) = NOT_FOUND)
            => /\ UNCHANGED <<playgrounds, playgroundTags>>
               /\ responses'[r] = responses[r]]_vars

\* a PUT names an unknown id under the slug of a stored playground, is
\* answered 404 and is done, the stored playground as it was created
C8_Witness ==
    \E r \in Reqs :
        /\ req[r].route = PutRoute /\ pc[r] = "done" /\ tx[r] = "committed"
        /\ Answered(r) /\ Status(r) = NOT_FOUND
        /\ playgrounds[req[r].id] = NoRow
        /\ \E i \in Ids : playgrounds[i] # NoRow /\ playgrounds[i].slug = req[r].slug
                            /\ playgrounds[i].versionsCount = 0

C11_SlugFixedAtCreation ==
    /\ [](\A i \in Ids : playgrounds[i] # NoRow => playgrounds[i].slug = SlugOf(i))
    /\ [][\A i \in Ids :
            playgrounds[i] # NoRow
            => playgrounds'[i] # NoRow /\ playgrounds'[i].slug = playgrounds[i].slug]_vars

\* an update sent to another slug than the playground's has committed: the
\* stored row has its new versionsCount and the slug it was created with
C11_Witness ==
    \E r \in Reqs :
        /\ req[r].route = PutRoute /\ pc[r] = "done" /\ tx[r] = "committed"
        /\ txRow[r] # NoRow /\ playgrounds[req[r].id] = txRow[r]
        /\ req[r].slug # SlugOf(req[r].id)
        /\ playgrounds[req[r].id].versionsCount = 1

\* a modern write request has passed validation: the handler has gone on to
\* db.transaction(...)
PassedValidation(r) == pc[r] = "begin" \/ tx[r] # "none"

\* C12: on POST /api/playground and on PUT /api/playground/:slug (its slug of
\* the required length) contents passes validation exactly when its length is
\* in 1..16777214: such a request goes on to its transaction and is never
\* answered 422, and a request with any other length is answered 422 and
\* nothing else happens in it.
C12_ContentsLengthBoundary ==
    \A r \in Reqs :
        (ModernWrite(r) /\ (req[r].route = PutRoute => Len(req[r].slug) = SlugLen))
        => IF req[r].contents \in 1..16777214
           THEN /\ PassedValidation(r)
                /\ \A i \in 1..Len(responses[r]) :
                        responses[r][i].code # UNPROCESSABLE_ENTITY
           ELSE /\ ~PassedValidation(r)
                /\ pc[r] = "done"
                /\ responses[r] = <<[code |-> UNPROCESSABLE_ENTITY, body |-> Msg]>>

\* a PUT with contents of length 16777214 has been answered 200 and committed,
\* the stored record carrying that length
C12_Witness ==
    \E r \in Reqs :
        /\ req[r].route = PutRoute /\ req[r].contents = 16777214
        /\ pc[r] = "done" /\ tx[r] = "committed" /\ Answered(r) /\ Status(r) = OK
        /\ playgrounds[req[r].id].contents = 16777214
        /\ playgrounds[req[r].id].versionsCount = 1

\* positions of the entries of a tags list that carry a numeric id
NumericAt(tagsData) == {i \in 1..Len(tagsData) : tagsData[i].typ = "number"}

\* the k-th of them
KthNumericAt(tagsData, k) ==
    CHOOSE i \in NumericAt(tagsData) :
        Cardinality({j \in NumericAt(tagsData) : j < i}) = k - 1

\* C13: for the tags list of every modern write request, prepareTags returns
\* the ids of exactly the entries with a numeric id, in their order (so 2 from
\* a list of 2 valid entries and 1 malformed one); and a request with a
\* non-empty list in which no persistence call failed (for a PUT: whose
\* playground was found) ends answered 201 / 200 and committed, the playground
\* associated with exactly these ids.
C13_PrepareTagsKeepsNumericIds ==
    \A r \in Reqs :
        ModernWrite(r)
        => LET tagsData == req[r].tagsData
               tags == prepareTags(tagsData)
           IN  /\ Len(tags) = Cardinality(NumericAt(tagsData))
               /\ \A k \in 1..Len(tags) : tags[k] = tagsData[KthNumericAt(tagsData, k)].id
               /\ (/\ PassedValidation(r) /\ pc[r] = "done" /\ failed[r] = "none"
                   /\ Len(tagsData) > 0
                   /\ (req[r].route = PutRoute => value[r] # NoRow))
                  => /\ tx[r] = "committed"
                     /\ responses[r] = <<[code |-> IF req[r].route = PostRoute
                                                   THEN CREATED ELSE OK,
                                          body |-> value[r]]>>
                     /\ playgroundTags[value[r].id] = WellFormedIds(tagsData)

\* a create with two valid entries around one without an id has committed
\* with exactly the two associations
C13_Witness ==
    \E r \in Reqs :
        /\ req[r].route = PostRoute /\ pc[r] = "done" /\ tx[r] = "committed"
        /\ req[r].tagsData = <<NumTag(1), NoIdTag, NumTag(2)>>
        /\ Answered(r) /\ Status(r) = CREATED
        /\ prepareTags(req[r].tagsData) = <<1, 2>>
        /\ playgroundTags[value[r].id] = {1, 2}

\* a tags list all of whose entries carry a numeric id, and at least one
ValidTagList(tagsData) ==
    Len(tagsData) > 0 /\ \A i \in 1..Len(tagsData) : tagsData[i].typ = "number"

\* C14: attaching a valid tag list is idempotent.  The commit of an update
\* answered 200 that carries a valid tag list leaves the playground associated
\* with exactly the tags of the list, each once; where the playground was
\* associated with exactly these tags before (as one such update leaves it),
\* the second one leaves the association as it was.  Requests arrive one after
\* the other.
C14_TagAttachmentIdempotent ==
    [][\A r \in Reqs :
        (/\ req[r].route = PutRoute /\ pc[r] = "commit" /\ tx'[r] = "committed"
         /\ responses[r] = <<[code |-> OK, body |-> value[r]]>>
         /\ ValidTagList(req[r].tagsData))
        => /\ playgroundTags'[req[r].id] = WellFormedIds(req[r].tagsData)
           /\ Cardinality(playgroundTags'[req[r].id])
                = Cardinality(WellFormedIds(req[r].tagsData))
           /\ playgroundTags[req[r].id] = WellFormedIds(req[r].tagsData)
              => playgroundTags'[req[r].id] = playgroundTags[req[r].id]]_vars

\* the second update of a playground, carrying tag 1 as the first could, has
\* committed: the playground is associated with tag 1 and nothing else
C14_Witness ==
    \E r \in Reqs :
        /\ req[r].route = PutRoute /\ pc[r] = "done" /\ tx[r] = "committed"
        /\ responses[r] = <<[code |-> OK, body |-> value[r]]>>
        /\ req[r].tagsData = <<NumTag(1)>>
        /\ playgrounds[req[r].id].versionsCount = 2
        /\ playgroundTags[req[r].id] = {1}

\* C15: a GET /api/playgrounds with an empty q is answered 422 at once and
\* never waits for a search; a search that completes is answered 404 or 200,
\* 404 whenever no playground is stored (the search then returns zero rows),
\* and a 200 always carries a non-empty list of stored playgrounds.
C15_SearchIs422Or404Or200 ==
    /\ [](\A r \in Reqs :
            req[r].route = SearchRoute
            => /\ req[r].q = ""
                  => /\ pc[r] = "done" /\ failed[r] = "none" /\ nexts[r] = 1
                     /\ responses[r] = <<[code |-> UNPROCESSABLE_ENTITY, body |-> Msg]>>
               /\ \A i \in 1..Len(responses[r]) :
                    responses[r][i].code = OK
                    => /\ req[r].q # ""
                       /\ responses[r][i].body # {}
                       /\ Cardinality(responses[r][i].body) > 0)
    /\ [][\A r \in Reqs :
            (req[r].route = SearchRoute /\ pc[r] = "search" /\ pc'[r] = "done"
                /\ failed'[r] = "none")
            => /\ Len(responses'[r]) = 1 /\ nexts'[r] = 1
               /\ responses'[r][1].code \in {NOT_FOUND, OK}
               /\ responses'[r][1].code = OK => responses'[r][1].body \subseteq Stored
               /\ Stored = {} => responses'[r][1] = [code |-> NOT_FOUND, body |-> Msg]
               /\ UNCHANGED <<playgrounds, playgroundTags>>]_vars

\* a search with a non-empty q has been answered 404 while nothing is stored
C15_Witness ==
    \E r \in Reqs :
        /\ req[r].route = SearchRoute /\ req[r].q # "" /\ pc[r] = "done"
        /\ responses[r] = <<[code |-> NOT_FOUND, body |-> Msg]>>
        /\ Stored = {}

\* C16: a legacy POST /api or POST /api/:id whose store operation succeeded
\* and returned an item is answered 201.
C16_LegacyPostIs201 ==
    \A r \in Reqs :
        (/\ req[r].route \in {LegacyPostRoute, LegacyPostVersionRoute}
         /\ pc[r] = "done" /\ failed[r] = "none"
         /\ Answered(r) /\ responses[r][1].body = "item")
        => Status(r) = 201

\* C17: on every route a request causes exactly one res.json and one next():
\* never more than one of either while it is handled, and exactly one of each
\* once its handler has nothing left to do.
C17_ExactlyOneResponseAndNext ==
    \A r \in Reqs :
        req[r].route # "none"
        => /\ Len(responses[r]) <= 1 /\ nexts[r] <= 1
           /\ pc[r] = "done" => Len(responses[r]) = 1 /\ nexts[r] = 1

\* C18: concurrent updates of one playground lose no increment.  Where every
\* request received is a PUT to the stored playground i by its slug, all of
\* them held by the server at once, and all are done, answered 200 and
\* committed with no call failed, the versionsCount of i, 0 at the start, is
\* the number of these requests.
C18_NoLostIncrement ==
    \A i \in Ids :
        LET puts == {r \in Reqs : req[r].route = PutRoute /\ req[r].id = i}
        IN  (/\ playgrounds[i] # NoRow
             /\ started = Cardinality(puts)
             /\ \A r \in puts :
                    /\ pc[r] = "done" /\ failed[r] = "none" /\ tx[r] = "committed"
                    /\ req[r].slug = playgrounds[i].slug
                    /\ responses[r] # <<>> /\ responses[r][1].code = OK)
            => playgrounds[i].versionsCount = Cardinality(puts)

\* C19: a PUT that has detected a slug mismatch (the row it updated carries
\* another slug than the URL's) never commits: the stored record and its tag
\* associations stay as they were before the request.
C19_SlugMismatchCommitsNothing ==
    /\ [](\A r \in Reqs :
            (req[r].route = PutRoute /\ txRow[r] # NoRow /\ txRow[r].slug # req[r].slug)
            => tx[r] # "committed")
    /\ [][\A r \in Reqs :
            (req[r].route = PutRoute /\ txRow[r] # NoRow /\ txRow[r].slug # req[r].slug
                /\ pc[r] = "commit" /\ pc'[r] = "done")
            => UNCHANGED <<playgrounds, playgroundTags>>]_vars

====
